---- MODULE Spec2Model ----
(***************************************************************************)
(* Concurrency examples of go_advanced_course:                             *)
(*   - Service.Work   (01-Concurrency/Cache/massive_operations.go): job    *)
(*     deduplication with an RWMutex, an in-progress map and per-waiter    *)
(*     unbuffered channels;                                                *)
(*   - Memory.Get     (the memoizing cache with a sync.Mutex).             *)
(* Every goroutine is a process; every action is one step between two     *)
(* synchronisation points of the Go code.                                  *)
(***************************************************************************)
EXTENDS Integers, Sequences, FiniteSets, TLC

\* ------------------------------------------------------------------ bounds
\* Number of goroutines that call Service.Work with a job out of 0..MaxJob.
NumCallers == 3
\* Jobs that several goroutines may request are 0..MaxJob.
MaxJob == 1
\* Number of goroutines that call Service.Work with a job nobody else requests
\* (the jobs 2, 1, 0 of massiveOperations); only LoneSpec launches them.
NumLone == 1
\* Number of goroutines that call Memory.Get.
NumGetters == 3
\* Cache keys are 0..MaxKey.
MaxKey == 1
\* The cached Function may return any value in 1..MaxFVal.
MaxFVal == 2

\* Number of connections the chat server accepts.
NumClients == 2
\* Number of lines a connected client sends before it disconnects, at most.
MaxLines == 1
\* Number of goroutines that call getDatabaseInstance (main launches 10).
NumInstanceCallers == 5
\* Number of goroutines that call Get on a NewCache(FibonacciCached).
NumFibCallers == 2
\* Their arguments are 0..MaxN.
MaxN == 3

Callers == 1..NumCallers
Lone == (NumCallers + 1)..(NumCallers + NumLone)
Procs == Callers \cup Lone
Jobs == 0..MaxJob
LoneJob(p) == MaxJob + (p - NumCallers)
AllJobs == 0..(MaxJob + NumLone)
Getters == 1..NumGetters
Keys == 0..MaxKey
FVals == 1..MaxFVal
FibCallers == 1..NumFibCallers
FibArgs == 0..MaxN

\* "no value yet" for an int local / a map entry that is absent
None == -1
\* "no goroutine" (lock owner, serving leader)
Nobody == 0

VARIABLES
  \* ---- Service (massive_operations.go)
  pc,              \* position of each Work goroutine
  job,             \* the argument of each Work call
  InProgress,      \* Service.InProgress (absent key reads as false)
  IsPending,       \* Service.IsPending: a map, so a function on a subset of Jobs;
                   \* a channel is named by the goroutine that made it
  Lock,            \* Service.Lock: [writer |-> goroutine or Nobody, readers |-> set]
  exists,          \* the local `exists` of the first check (line 39)
  result,          \* the leader's local `result` (line 68)
  pendingWorkers,  \* the leader's local snapshot of IsPending[job] (line 72)
  sendIdx,         \* the leader's position in the range loop (line 77)
  resp,            \* the waiter's local `resp` (line 55)
  closed,          \* the set of closed response channels (deferred close, line 46)
  panicked,        \* a goroutine panicked: the Go runtime ends the process
  \* ---- Service, history (what the claims speak about)
  calls,           \* number of ExpensiveFibonacci invocations per job
  servedBy,        \* the leader whose send a waiter received
  lateCall,        \* the call took its first step after a waiter of its job had received
  lateIdle,        \* ... and after every leader of its job had run its cleanup
  \* ---- Memory (cache with sync.Mutex)
  mpc,             \* position of each Get goroutine
  key,             \* the argument of each Get call
  cache,           \* Memory.cache, a function on a subset of Keys
  mux,             \* Memory.mux: the goroutine holding it, or Nobody
  mresult,         \* the local `result` of Get
  ret,             \* the value Get returned
  finvoked,        \* number of invocations of f made by each Get call
  seenRet,         \* values Get had already returned for the key when the call started
  \* ---- Memory built with NewCache(FibonacciCached); shares cache and mux
  ftask,           \* the argument of each goroutine's outermost Get call
  fstack,          \* each goroutine's call stack of Get frames, innermost last
  fret,            \* the value the outermost Get returned
  \* ---- RaceConditions-Mutex: the balance program
  balance,         \* the package variable balance
  bmux,            \* main's sync.RWMutex: [writer, readers]
  wg,              \* main's sync.WaitGroup counter
  bpc,             \* program counter of each Deposit / Withdraw goroutine
  btmp,            \* the balance a goroutine loaded for its += or -=
  mainpc,          \* program counter of main
  spawned,         \* how many go statements main has executed
  printed,         \* the balances main has printed, in order
  \* ---- Singleton: getDatabaseInstance
  spc,             \* program counter of each goroutine of main
  mutex,           \* the package variable mutex: its holder
  db,              \* the package variable db: NilDb or the instance it points to
  created,         \* how many times &Database{} has been evaluated
  connections,     \* how many times CreateSingleConnection has run
  sret,            \* what getDatabaseInstance returned to each goroutine
  \* ---- NetCAT chat server
  hpc,             \* program counter of each connection's HandleConn
  wpc,             \* program counter of each connection's MessageWriter
  bcast,           \* program counter of Broadcast
  clients,         \* Broadcast's map of registered client channels
  message,         \* the message Broadcast is sending to the clients
  todo,            \* the clients the range loop of Broadcast has not reached yet
  wmsg,            \* the message a MessageWriter has received and not written yet
  conn,            \* what has been written to each connection
  chClosed,        \* the client channels that have been closed
  lines,           \* how many lines each connection's scanner has returned
  received,        \* history: the messages Broadcast took from ChatMessages, in
                   \* order, each with the clients registered at that moment
  delivered        \* history: for each client, the positions in `received` of the
                   \* messages Broadcast has sent to its channel, in order

svcVars == <<pc, job, InProgress, IsPending, Lock, exists, result, pendingWorkers,
             sendIdx, resp, closed, panicked, calls, servedBy, lateCall, lateIdle>>
memVars == <<mpc, key, cache, mux, mresult, ret, finvoked, seenRet>>
fibVars == <<ftask, fstack, fret>>
balVars == <<balance, bmux, wg, bpc, btmp, mainpc, spawned, printed>>
sglVars == <<spc, mutex, db, created, connections, sret>>
chatVars == <<hpc, wpc, bcast, clients, message, todo, wmsg, conn, chClosed,
              lines, received, delivered>>
extraVars == <<fibVars, balVars, sglVars, chatVars>>
fibOthers == <<svcVars, balVars, sglVars, chatVars>>
balOthers == <<svcVars, memVars, fibVars, sglVars, chatVars>>
sglOthers == <<svcVars, memVars, fibVars, balVars, chatVars>>
chatOthers == <<svcVars, memVars, fibVars, balVars, sglVars>>
nonSvcVars == <<memVars, extraVars>>
nonMemVars == <<svcVars, extraVars>>
vars == <<svcVars, memVars, extraVars>>

\* No goroutine of the FibonacciCached program runs.
FibOff ==
  /\ ftask = [g \in FibCallers |-> 0]
  /\ fstack = [g \in FibCallers |-> << >>]
  /\ fret = [g \in FibCallers |-> None]

\* var balance int = 100
InitialBalance == 100
\* for index := 1; index <= 5; index++ { go Deposit(index*100, ...) }
LoopDeposits == 5

\* The go statements of main, in program order.
Ops ==
  [i \in 1..LoopDeposits |-> [op |-> "Deposit", amount |-> i * 100]]
  \o <<[op |-> "Deposit", amount |-> 100], [op |-> "Deposit", amount |-> 200],
       [op |-> "Withdraw", amount |-> 300], [op |-> "Withdraw", amount |-> 200],
       [op |-> "Withdraw", amount |-> 100]>>
\* What main adds to the WaitGroup right before each go statement:
\* wg.Add(1) in the loop, wg.Add(2) before the two deposits, wg.Add(3) before
\* the three withdrawals.
WgAdd == [i \in 1..LoopDeposits |-> 1] \o <<2, 0, 3, 0, 0>>
BalProcs == 1..Len(Ops)

\* The balance program is not run.
BalOff ==
  /\ balance = InitialBalance
  /\ bmux = [writer |-> Nobody, readers |-> 0]
  /\ wg = 0
  /\ bpc = [p \in BalProcs |-> "off"]
  /\ btmp = [p \in BalProcs |-> None]
  /\ mainpc = "off"
  /\ spawned = 0
  /\ printed = << >>

SglProcs == 1..NumInstanceCallers
\* var db *Database: the nil pointer
NilDb == 0

\* The singleton program is not run.
SglOff ==
  /\ spc = [p \in SglProcs |-> "off"]
  /\ mutex = Nobody
  /\ db = NilDb
  /\ created = 0
  /\ connections = 0
  /\ sret = [p \in SglProcs |-> None]

Conns == 1..NumClients
\* No message: the zero value of a string variable.
NoMsg == [from |-> 0, kind |-> "", n |-> 0]

\* The chat server is not run.
ChatOff ==
  /\ hpc = [c \in Conns |-> "off"]
  /\ wpc = [c \in Conns |-> "off"]
  /\ bcast = "off"
  /\ clients = {}
  /\ message = NoMsg
  /\ todo = {}
  /\ wmsg = [c \in Conns |-> NoMsg]
  /\ conn = [c \in Conns |-> << >>]
  /\ chClosed = {}
  /\ lines = [c \in Conns |-> 0]
  /\ received = << >>
  /\ delivered = [c \in Conns |-> << >>]

\* The programs a specification does not run.
ExtrasOff == FibOff /\ BalOff /\ SglOff /\ ChatOff

\* ------------------------------------------------------------ Service.Work

\* ExpensiveFibonacci "just returns the input number".
ExpensiveFibonacci(n) == n

\* s.InProgress[job]: the value stored for the job (false when absent).
JobInProgress(j) == InProgress[j]

\* A plausible slip: the cleanup does not reset the in-progress marker.
MarkCompleteForgotten(j) == InProgress

\* s.InProgress[job] = false, the cleanup's "mark job as complete" (line 85)
MarkComplete(j) == [InProgress EXCEPT ![j] = FALSE]

\* A plausible slip: the map is read under a key that is not the job's.
LookupPendingAnyKey(j) ==
  IF DOMAIN IsPending = {} THEN [workers |-> << >>, ok |-> FALSE]
  ELSE [workers |-> IsPending[CHOOSE k \in DOMAIN IsPending : TRUE], ok |-> TRUE]

\* s.IsPending[job], as in `pendingWorkers, exists := s.IsPending[job]`: the
\* stored slice and whether the key is present (a nil slice when it is not).
LookupPending(j) ==
  IF j \in DOMAIN IsPending THEN [workers |-> IsPending[j], ok |-> TRUE]
  ELSE [workers |-> << >>, ok |-> FALSE]

\* sync.RWMutex: RLock waits for the writer, Lock for the writer and the readers.
CanRLock == Lock.writer = Nobody
\* (a Lock that would not wait for the readers to leave)
CanLockDespiteReaders == Lock.writer = Nobody
CanLock == Lock.writer = Nobody /\ Lock.readers = {}
RLocked(p) == [Lock EXCEPT !.readers = @ \cup {p}]
RUnlocked(p) == [Lock EXCEPT !.readers = @ \ {p}]
WLocked(p) == [Lock EXCEPT !.writer = p]
WUnlocked == [Lock EXCEPT !.writer = Nobody]

\* The state NewService builds, with NumCallers goroutines about to call Work.
SvcState ==
  /\ InProgress = [j \in AllJobs |-> FALSE]
  /\ IsPending = << >>
  /\ Lock = [writer |-> Nobody, readers |-> {}]
  /\ exists = [p \in Procs |-> FALSE]
  /\ result = [p \in Procs |-> None]
  /\ pendingWorkers = [p \in Procs |-> << >>]
  /\ sendIdx = [p \in Procs |-> 1]
  /\ resp = [p \in Procs |-> None]
  /\ closed = {}
  /\ panicked = FALSE
  /\ calls = [j \in AllJobs |-> 0]
  /\ servedBy = [p \in Procs |-> Nobody]
  /\ lateCall = [p \in Procs |-> FALSE]
  /\ lateIdle = [p \in Procs |-> FALSE]

\* The job list handed to the goroutines: the callers draw theirs from Jobs, a
\* lone goroutine has a job of its own.
JobLists ==
  {jl \in [Procs -> AllJobs] :
     /\ \A p \in Callers : jl[p] \in Jobs
     /\ \A p \in Lone : jl[p] = LoneJob(p)
     \* goroutines are interchangeable: one job list per multiset of jobs
     /\ \A p \in Callers, q \in Callers : p <= q => jl[p] <= jl[q]}

\* NewService, then NumCallers goroutines about to call Work ("off": a goroutine
\* that is never launched).
SvcInit ==
  /\ SvcState
  /\ job \in JobLists
  /\ pc = [p \in Procs |-> IF p \in Callers THEN "start" ELSE "off"]

\* NewService, then the callers and the lone goroutines about to call Work.
LoneInit ==
  /\ SvcState
  /\ job \in JobLists
  /\ pc = [p \in Procs |-> "start"]

\* The goroutine has marked its job in progress (line 63) and has not yet run
\* the cleanup of lines 84-87.
InEpisode(p) ==
  pc[p] \in {"l_compute", "l_rlock", "l_snapshot", "l_send", "l_clock", "l_cleanup"}

\* line 38: s.Lock.RLock()
Enter(p) ==
  /\ ~panicked /\ pc[p] = "start" /\ CanRLock
  /\ Lock' = RLocked(p)
  /\ pc' = [pc EXCEPT ![p] = "check"]
  /\ lateCall' = [lateCall EXCEPT ![p] =
                     \E q \in Procs : job[q] = job[p] /\ resp[q] # None]
  /\ lateIdle' = [lateIdle EXCEPT ![p] =
                     /\ \E q \in Procs : job[q] = job[p] /\ resp[q] # None
                     /\ \A q \in Procs : job[q] = job[p] => ~InEpisode(q)]
  /\ UNCHANGED nonSvcVars
  /\ UNCHANGED <<job, InProgress, IsPending, exists, result, pendingWorkers,
                 sendIdx, resp, closed, panicked, calls, servedBy>>

\* lines 39-42 and 59: exists := s.InProgress[job]; s.Lock.RUnlock()
Check(p) ==
  /\ ~panicked /\ pc[p] = "check"
  /\ exists' = [exists EXCEPT ![p] = JobInProgress(job[p])]
  /\ Lock' = RUnlocked(p)
  /\ pc' = [pc EXCEPT ![p] = IF exists'[p] THEN "w_lock" ELSE "l_lock"]
  /\ UNCHANGED nonSvcVars
  /\ UNCHANGED <<job, InProgress, IsPending, result, pendingWorkers, sendIdx,
                 resp, closed, panicked, calls, servedBy, lateCall,
                 lateIdle>>

\* lines 45-49: response := make(chan int); s.Lock.Lock()
WaiterLock(p) ==
  /\ ~panicked /\ pc[p] = "w_lock" /\ CanLock
  /\ Lock' = WLocked(p)
  /\ pc' = [pc EXCEPT ![p] = "w_append"]
  /\ UNCHANGED nonSvcVars
  /\ UNCHANGED <<job, InProgress, IsPending, exists, result, pendingWorkers,
                 sendIdx, resp, closed, panicked, calls, servedBy, lateCall, lateIdle>>

\* lines 50-51: s.IsPending[job] = append(s.IsPending[job], response); Unlock.
\* The goroutine then blocks in `resp := <-response` (line 55).
WaiterRegister(p) ==
  /\ ~panicked /\ pc[p] = "w_append"
  /\ IsPending' = [j \in DOMAIN IsPending \cup {job[p]} |->
                     IF j = job[p] THEN Append(LookupPending(j).workers, p) ELSE IsPending[j]]
  /\ Lock' = WUnlocked
  /\ pc' = [pc EXCEPT ![p] = "w_recv"]
  /\ UNCHANGED nonSvcVars
  /\ UNCHANGED <<job, InProgress, exists, result, pendingWorkers, sendIdx, resp,
                 closed, panicked, calls, servedBy, lateCall, lateIdle>>

\* lines 56-57 with the deferred close(response) of line 46
WaiterReturn(p) ==
  /\ ~panicked /\ pc[p] = "w_return"
  /\ closed' = closed \cup {p}
  /\ pc' = [pc EXCEPT ![p] = "done"]
  /\ exists' = [exists EXCEPT ![p] = FALSE]
  /\ UNCHANGED nonSvcVars
  /\ UNCHANGED <<job, InProgress, IsPending, Lock, result, pendingWorkers,
                 sendIdx, resp, panicked, calls, servedBy, lateCall, lateIdle>>

\* line 62: s.Lock.Lock()
LeaderLock(p) ==
  /\ ~panicked /\ pc[p] = "l_lock" /\ CanLock
  /\ Lock' = WLocked(p)
  /\ pc' = [pc EXCEPT ![p] = "l_mark"]
  /\ UNCHANGED nonSvcVars
  /\ UNCHANGED <<job, InProgress, IsPending, exists, result, pendingWorkers,
                 sendIdx, resp, closed, panicked, calls, servedBy, lateCall, lateIdle>>

\* lines 63-64: s.InProgress[job] = true; s.Lock.Unlock()
LeaderMark(p) ==
  /\ ~panicked /\ pc[p] = "l_mark"
  /\ InProgress' = [InProgress EXCEPT ![job[p]] = TRUE]
  /\ Lock' = WUnlocked
  /\ pc' = [pc EXCEPT ![p] = "l_compute"]
  /\ UNCHANGED nonSvcVars
  /\ UNCHANGED <<job, IsPending, exists, result, pendingWorkers, sendIdx, resp,
                 closed, panicked, calls, servedBy, lateCall, lateIdle>>

\* line 68: result := ExpensiveFibonacci(job)
Compute(p) ==
  /\ ~panicked /\ pc[p] = "l_compute"
  /\ result' = [result EXCEPT ![p] = ExpensiveFibonacci(job[p])]
  /\ calls' = [calls EXCEPT ![job[p]] = @ + 1]
  /\ pc' = [pc EXCEPT ![p] = "l_rlock"]
  /\ UNCHANGED nonSvcVars
  /\ UNCHANGED <<job, InProgress, IsPending, Lock, exists, pendingWorkers,
                 sendIdx, resp, closed, panicked, servedBy, lateCall,
                 lateIdle>>

\* line 71: s.Lock.RLock()
LeaderRLock(p) ==
  /\ ~panicked /\ pc[p] = "l_rlock" /\ CanRLock
  /\ Lock' = RLocked(p)
  /\ pc' = [pc EXCEPT ![p] = "l_snapshot"]
  /\ UNCHANGED nonSvcVars
  /\ UNCHANGED <<job, InProgress, IsPending, exists, result, pendingWorkers,
                 sendIdx, resp, closed, panicked, calls, servedBy, lateCall, lateIdle>>

\* lines 72-75: pendingWorkers, exists := s.IsPending[job]; RUnlock; if exists.
\* With nothing to send the leader goes straight to the cleanup.
LeaderSnapshot(p) ==
  /\ ~panicked /\ pc[p] = "l_snapshot"
  /\ pendingWorkers' = [pendingWorkers EXCEPT ![p] = LookupPending(job[p]).workers]
  /\ exists' = [exists EXCEPT ![p] = LookupPending(job[p]).ok]
  /\ sendIdx' = [sendIdx EXCEPT ![p] = 1]
  /\ Lock' = RUnlocked(p)
  /\ pc' = [pc EXCEPT ![p] =
              IF exists'[p] /\ Len(pendingWorkers'[p]) >= 1 THEN "l_send"
              ELSE "l_clock"]
  /\ UNCHANGED nonSvcVars
  /\ UNCHANGED <<job, InProgress, IsPending, result, resp, closed, panicked,
                 calls, servedBy, lateCall, lateIdle>>

\* lines 77-79: response <- result, on an unbuffered channel: the send completes
\* together with the waiter's receive of line 55.
SendDeliver(p) ==
  /\ ~panicked /\ pc[p] = "l_send"
  /\ LET ch == pendingWorkers[p][sendIdx[p]] IN
       /\ ch \notin closed
       /\ pc[ch] = "w_recv"
       /\ resp' = [resp EXCEPT ![ch] = result[p]]
       /\ servedBy' = [servedBy EXCEPT ![ch] = p]
       /\ pc' = [pc EXCEPT ![ch] = "w_return",
                           ![p] = IF sendIdx[p] < Len(pendingWorkers[p])
                                  THEN "l_send" ELSE "l_clock"]
  /\ sendIdx' = [sendIdx EXCEPT ![p] = @ + 1]
  /\ UNCHANGED nonSvcVars
  /\ UNCHANGED <<job, InProgress, IsPending, Lock, exists, result, pendingWorkers,
                 closed, panicked, calls, lateCall, lateIdle>>

\* lines 77-79: a send on a closed channel (closed before the send or while the
\* sender is blocked in it) panics; nothing recovers, so the process ends.
SendPanic(p) ==
  /\ ~panicked /\ pc[p] = "l_send"
  /\ pendingWorkers[p][sendIdx[p]] \in closed
  /\ panicked' = TRUE
  /\ UNCHANGED nonSvcVars
  /\ UNCHANGED <<pc, job, InProgress, IsPending, Lock, exists, result,
                 pendingWorkers, sendIdx, resp, closed, calls, servedBy,
                 lateCall, lateIdle>>

\* line 84: s.Lock.Lock()
CleanupLock(p) ==
  /\ ~panicked /\ pc[p] = "l_clock" /\ CanLock
  /\ Lock' = WLocked(p)
  /\ pc' = [pc EXCEPT ![p] = "l_cleanup"]
  /\ UNCHANGED nonSvcVars
  /\ UNCHANGED <<job, InProgress, IsPending, exists, result, pendingWorkers,
                 sendIdx, resp, closed, panicked, calls, servedBy, lateCall, lateIdle>>

\* lines 85-88: InProgress[job] = false; IsPending[job] = make([]chan int, 0)
Cleanup(p) ==
  /\ ~panicked /\ pc[p] = "l_cleanup"
  /\ InProgress' = MarkComplete(job[p])
  /\ IsPending' = [j \in DOMAIN IsPending \cup {job[p]} |->
                     IF j = job[p] THEN << >> ELSE IsPending[j]]
  /\ Lock' = WUnlocked
  /\ pc' = [pc EXCEPT ![p] = "done"]
  \* Work returns: its locals `exists`, `pendingWorkers` and the loop are gone
  /\ exists' = [exists EXCEPT ![p] = FALSE]
  /\ pendingWorkers' = [pendingWorkers EXCEPT ![p] = << >>]
  /\ sendIdx' = [sendIdx EXCEPT ![p] = 1]
  /\ UNCHANGED nonSvcVars
  /\ UNCHANGED <<job, result, resp, closed, panicked, calls, servedBy, lateCall,
                 lateIdle>>

\* One step of the goroutine `go func(job int) { defer wg.Done(); service.Work(job) }`.
Work(p) ==
  \/ Enter(p) \/ Check(p)
  \/ WaiterLock(p) \/ WaiterRegister(p) \/ WaiterReturn(p)
  \/ LeaderLock(p) \/ LeaderMark(p) \/ Compute(p)
  \/ LeaderRLock(p) \/ LeaderSnapshot(p)
  \/ SendDeliver(p) \/ SendPanic(p)
  \/ CleanupLock(p) \/ Cleanup(p)

\* wg.Wait() of massiveOperations returns once every goroutine has called wg.Done().
WaitReturned == \A p \in Procs : pc[p] \in {"done", "off"}

\* The Memory cache is not used by the Service program.
MemOff ==
  /\ mpc = [g \in Getters |-> "off"]
  /\ key = [g \in Getters |-> 0]
  /\ cache = << >>
  /\ mux = Nobody
  /\ mresult = [g \in Getters |-> None]
  /\ ret = [g \in Getters |-> None]
  /\ finvoked = [g \in Getters |-> 0]
  /\ seenRet = [g \in Getters |-> {}]

Init == SvcInit /\ MemOff /\ ExtrasOff

Next == \E p \in Procs : Work(p)

Spec == Init /\ [][Next]_vars

\* The same program with the lone goroutines launched too.
InitWithLone == LoneInit /\ MemOff /\ ExtrasOff

LoneSpec == InitWithLone /\ [][Next]_vars

\* The Go scheduler runs every runnable goroutine, and sync.RWMutex hands the
\* lock to every goroutine that keeps asking for it (starvation mode).
Fairness == \A p \in Procs : SF_vars(Work(p))
FairSpec == LoneSpec /\ Fairness

\* ------------------------------------------------- Service.Work: the claims

Entered(p) == pc[p] \notin {"start", "off"}
OnLeaderPath(p) ==
  pc[p] \in {"l_lock", "l_mark", "l_compute", "l_rlock", "l_snapshot", "l_send",
              "l_clock", "l_cleanup"}
OnWaiterPath(p) == pc[p] \in {"w_lock", "w_append", "w_recv", "w_return"}
CallersOf(k) == {p \in Procs : job[p] = k /\ pc[p] # "off"}

\* C1 (single-flight): in a state where all callers of a job k have entered Work
\* and none of them has returned yet, ExpensiveFibonacci(k) has been invoked at
\* most once and at most one caller of k is on the leader's path.
C1_SingleFlight ==
  \A k \in AllJobs :
    (\A p \in CallersOf(k) : Entered(p) /\ pc[p] # "done")
      => /\ calls[k] <= 1
         /\ Cardinality({p \in CallersOf(k) : OnLeaderPath(p)}) <= 1

\* C2 (no lost wakeup): under fair scheduling every caller that has appended its
\* channel to IsPending[k] and waits on it eventually returns, and so wg.Wait()
\* eventually returns.
C2_NoLostWakeup ==
  /\ \A p \in Procs : (pc[p] = "w_recv") ~> (pc[p] = "done")
  /\ <>WaitReturned

\* C5 (waiters get the leader's value for their own key): a value received by a
\* waiter of job k was sent by a leader of the same job k, is the result that
\* leader computed, is ExpensiveFibonacci(k), and every waiter served by that
\* leader received the same value.
C5_WaiterValue ==
  \A w \in Procs :
    resp[w] # None =>
      /\ servedBy[w] \in Procs
      /\ job[servedBy[w]] = job[w]
      /\ resp[w] = result[servedBy[w]]
      /\ resp[w] = ExpensiveFibonacci(job[w])
      /\ \A v \in Procs : servedBy[v] = servedBy[w] => resp[v] = resp[w]

\* C5, its case: two waiters of one job have both been served by one leader.
C5_Witness ==
  \E w \in Procs, v \in Procs :
    w # v /\ resp[w] # None /\ resp[v] # None /\ servedBy[w] = servedBy[v]

\* C6 (waiters only while in progress): whenever InProgress[k] is false,
\* IsPending[k] is absent or empty.
C6_PendingOnlyInProgress ==
  \A k \in AllJobs : ~InProgress[k] => LookupPending(k).workers = << >>

\* C8 (key independence): under fair scheduling a Work(j) call for a job nobody
\* else requests runs ExpensiveFibonacci(j) and returns whatever the other
\* goroutines do, and no goroutine holds Service.Lock while it runs
\* ExpensiveFibonacci or sends or receives on a channel.
C8_KeyIndependence ==
  /\ \A p \in Lone : [](Entered(p) => <>(pc[p] = "done" /\ result[p] # None))
  /\ [](\A p \in Procs : pc[p] \in {"l_compute", "l_send", "w_recv"}
                           => Lock.writer # p /\ p \notin Lock.readers)

C12_LeaderReachesCleanup ==
  \A p \in Procs : (pc[p] = "l_rlock") ~> (pc[p] = "done")

\* The channel a leader in the notification loop is sending to (line 78).
SendTarget(p) == pendingWorkers[p][sendIdx[p]]

\* C17 (drain completeness): whenever a leader is about to replace IsPending[k]
\* with an empty list, that leader has already sent its result to every channel
\* in IsPending[k].
C17_DrainComplete ==
  \A p \in Procs :
    pc[p] = "l_cleanup" =>
      \A i \in 1..Len(LookupPending(job[p]).workers) :
        servedBy[LookupPending(job[p]).workers[i]] = p

\* C18 (no send on a closed channel, one send per waiter): no send has panicked,
\* and a leader in its notification loop never targets a channel that is closed
\* or that has already been sent a result.
C18_SendOnceOnOpen ==
  /\ ~panicked
  /\ \A p \in Procs :
       pc[p] = "l_send" =>
         SendTarget(p) \notin closed /\ servedBy[SendTarget(p)] = Nobody

\* --------------------------------------------------------------- Memory.Get

\* m.f(key, m) for a Function that does not call Get: the values it may return.
\* Function is any func(key int, m *Memory) int, so two invocations for one key
\* need not agree.
FResults(k) == FVals

\* result, exists := m.cache[key]  (the zero value when the key is absent)
CacheLookup(k) ==
  IF k \in DOMAIN cache THEN [result |-> cache[k], exists |-> TRUE]
  ELSE [result |-> 0, exists |-> FALSE]

\* NewCache(f), then NumGetters goroutines about to call Get.
MemInit ==
  /\ key \in [Getters -> Keys]
  /\ mpc = [g \in Getters |-> "g_start"]
  /\ cache = << >>
  /\ mux = Nobody
  /\ mresult = [g \in Getters |-> None]
  /\ ret = [g \in Getters |-> None]
  /\ finvoked = [g \in Getters |-> 0]
  /\ seenRet = [g \in Getters |-> {}]

\* line 57: m.mux.Lock(), the first statement of Get
GetLock(g) ==
  /\ mpc[g] = "g_start" /\ mux = Nobody
  /\ mux' = g
  /\ mpc' = [mpc EXCEPT ![g] = "g_read"]
  /\ seenRet' = [seenRet EXCEPT ![g] =
                   {ret[h] : h \in {h \in Getters : key[h] = key[g] /\ mpc[h] = "done"}}]
  /\ UNCHANGED nonMemVars
  /\ UNCHANGED <<key, cache, mresult, ret, finvoked>>

\* lines 58-62 and 70: result, exists := m.cache[key]; Unlock; on a hit return result
GetRead(g) ==
  /\ mpc[g] = "g_read"
  /\ mresult' = [mresult EXCEPT ![g] = CacheLookup(key[g]).result]
  /\ mux' = Nobody
  /\ IF CacheLookup(key[g]).exists
       THEN /\ mpc' = [mpc EXCEPT ![g] = "done"]
            /\ ret' = [ret EXCEPT ![g] = CacheLookup(key[g]).result]
       ELSE /\ mpc' = [mpc EXCEPT ![g] = "g_lock2"]
            /\ ret' = ret
  /\ UNCHANGED nonMemVars
  /\ UNCHANGED <<key, cache, finvoked, seenRet>>

\* lines 63-65: m.mux.Lock(), then m.f(key, m) is called with the lock held
GetLockAndCall(g) ==
  /\ mpc[g] = "g_lock2" /\ mux = Nobody
  /\ mux' = g
  /\ finvoked' = [finvoked EXCEPT ![g] = @ + 1]
  /\ mpc' = [mpc EXCEPT ![g] = "g_f"]
  /\ UNCHANGED nonMemVars
  /\ UNCHANGED <<key, cache, mresult, ret, seenRet>>

\* line 65: m.f returns
FReturn(g) ==
  /\ mpc[g] = "g_f"
  /\ \E v \in FResults(key[g]) : mresult' = [mresult EXCEPT ![g] = v]
  /\ mpc' = [mpc EXCEPT ![g] = "g_store"]
  /\ UNCHANGED nonMemVars
  /\ UNCHANGED <<key, cache, mux, ret, finvoked, seenRet>>

\* lines 67-70: m.cache[key] = result; Unlock; return result
GetStore(g) ==
  /\ mpc[g] = "g_store"
  /\ cache' = [k \in DOMAIN cache \cup {key[g]} |->
                 IF k = key[g] THEN mresult[g] ELSE cache[k]]
  /\ mux' = Nobody
  /\ ret' = [ret EXCEPT ![g] = mresult[g]]
  /\ mpc' = [mpc EXCEPT ![g] = "done"]
  /\ UNCHANGED nonMemVars
  /\ UNCHANGED <<key, mresult, finvoked, seenRet>>

\* One step of a goroutine that calls m.Get(key).
Get(g) ==
  \/ GetLock(g) \/ GetRead(g) \/ GetLockAndCall(g) \/ FReturn(g) \/ GetStore(g)

\* The Service is not used by the cache program.
SvcOff ==
  /\ SvcState
  /\ job = [p \in Procs |-> 0]
  /\ pc = [p \in Procs |-> "off"]

MemNext == \E g \in Getters : Get(g)

CacheInit == MemInit /\ SvcOff /\ ExtrasOff

MemSpec == CacheInit /\ [][MemNext]_vars

\* ---------------------------------------------------- Memory.Get: the claims

\* C3 (no recomputation of a cached key): no invocation of f for key k is in
\* progress, or starts, once m.cache holds an entry for k.
C3_NoInvokeAfterStore ==
  \A g \in Getters : mpc[g] = "g_f" => key[g] \notin DOMAIN cache

\* C4 (cache short-circuit): a Get(k) call that starts after an earlier Get(k)
\* has returned invokes f zero times and returns the value every such earlier
\* call returned.
C4_ShortCircuit ==
  \A g \in Getters :
    seenRet[g] # {} =>
      /\ finvoked[g] = 0
      /\ mpc[g] = "done" => \A v \in seenRet[g] : ret[g] = v

\* C7 (the lock is not held during f): while a goroutine is executing f it does
\* not hold m.mux, so m.mux is free for a Get of an already cached key.
C7_NoLockDuringF ==
  \A g \in Getters :
    mpc[g] = "g_f" =>
      /\ mux # g
      /\ \A h \in Getters :
           mpc[h] = "g_start" /\ key[h] \in DOMAIN cache /\ key[h] # key[g]
             => mux = Nobody

\* C10 (a stored entry never changes): no step changes the value of an entry
\* m.cache already holds.
C10_StoredNeverChanges ==
  [][\A k \in DOMAIN cache : k \in DOMAIN cache' /\ cache'[k] = cache[k]]_vars

\* ------------------------------------- Service and Memory, either program

\* Either program is run: the Service of massiveOperations or a Memory.
EitherInit ==
  \/ SvcInit /\ MemOff /\ ExtrasOff
  \/ MemInit /\ SvcOff /\ ExtrasOff

EitherNext ==
  \/ \E p \in Procs : Work(p)
  \/ \E g \in Getters : Get(g)

EitherSpec == EitherInit /\ [][EitherNext]_vars

\* The next step of Work reads InProgress (line 39) or IsPending (line 72).
SvcReads(p) == pc[p] \in {"check", "l_snapshot"}
\* The next step of Work writes IsPending (line 50), InProgress (line 63) or
\* both (lines 85-86).
SvcWrites(p) == pc[p] \in {"w_append", "l_mark", "l_cleanup"}
\* The next step of Get reads (line 58) or writes (line 67) Memory.cache.
MemAccesses(g) == mpc[g] \in {"g_read", "g_store"}

\* C19 (no data race): every read of Service.InProgress or Service.IsPending is
\* made holding Service.Lock (shared, no writer inside), every write holding it
\* exclusively, so no write is concurrent with another access; every access to
\* Memory.cache is made holding Memory.mux, so no two are concurrent.
C19_NoDataRace ==
  /\ \A p \in Procs : SvcReads(p) => p \in Lock.readers /\ Lock.writer = Nobody
  /\ \A p \in Procs : SvcWrites(p) => Lock.writer = p /\ Lock.readers = {}
  /\ \A p \in Procs, q \in Procs :
       p # q => ~(SvcWrites(p) /\ (SvcReads(q) \/ SvcWrites(q)))
  /\ \A g \in Getters : MemAccesses(g) => mux = g
  /\ \A g \in Getters, h \in Getters : g # h => ~(MemAccesses(g) /\ MemAccesses(h))

\* C19, its case: a goroutine is inside the cleanup's exclusive section while
\* another one of the same job waits at s.Lock.Lock() to append its channel.
C19_Witness ==
  \E p \in Procs, q \in Procs :
    pc[p] = "l_cleanup" /\ pc[q] = "w_lock" /\ job[p] = job[q]


\* ------------------------------------------ Memory.Get with FibonacciCached

\* The Fibonacci number at position n.
RECURSIVE Fib(_)
Fib(n) == IF n <= 1 THEN n ELSE Fib(n - 1) + Fib(n - 2)

\* The innermost Get frame of a goroutine: [n, pc, acc].
Top(g) == fstack[g][Len(fstack[g])]
Running(g) == Len(fstack[g]) > 0
WithTop(g, frame) == [fstack[g] EXCEPT ![Len(fstack[g])] = frame]

\* The innermost Get returns v (line 70): the frame is popped and the value goes
\* to main or to the FibonacciCached that made the call (line 22), which calls
\* m.Get(n-2) after m.Get(n-1) and adds the two.
ReturnFrom(g, v) ==
  LET rest == SubSeq(fstack[g], 1, Len(fstack[g]) - 1) IN
  IF rest = << >>
    THEN /\ fstack' = [fstack EXCEPT ![g] = << >>]
         /\ fret' = [fret EXCEPT ![g] = v]
    ELSE LET caller == rest[Len(rest)] IN
         /\ fret' = fret
         /\ fstack' = [fstack EXCEPT ![g] =
              IF caller.pc = "f_first"
                THEN Append([rest EXCEPT ![Len(rest)] =
                               [caller EXCEPT !.acc = v, !.pc = "f_second"]],
                            [n |-> caller.n - 2, pc |-> "g_start", acc |-> 0])
                ELSE [rest EXCEPT ![Len(rest)] =
                        [caller EXCEPT !.acc = caller.acc + v, !.pc = "g_store"]]]

\* NewCache(FibonacciCached), then goroutines about to call cache.Get(n).
FibInit ==
  /\ ftask \in [FibCallers -> FibArgs]
  /\ fstack = [g \in FibCallers |-> <<[n |-> ftask[g], pc |-> "g_start", acc |-> 0]>>]
  /\ fret = [g \in FibCallers |-> None]
  /\ cache = << >>
  /\ mux = Nobody
  /\ mpc = [g \in Getters |-> "off"]
  /\ key = [g \in Getters |-> 0]
  /\ mresult = [g \in Getters |-> None]
  /\ ret = [g \in Getters |-> None]
  /\ finvoked = [g \in Getters |-> 0]
  /\ seenRet = [g \in Getters |-> {}]

\* line 57: m.mux.Lock(); sync.Mutex is not reentrant, so it waits also when
\* the goroutine itself holds the lock
FibGetLock(g) ==
  /\ Running(g) /\ Top(g).pc = "g_start" /\ mux = Nobody
  /\ mux' = g
  /\ fstack' = [fstack EXCEPT ![g] = WithTop(g, [Top(g) EXCEPT !.pc = "g_read"])]
  /\ UNCHANGED <<fibOthers, mpc, key, cache, mresult, ret, finvoked, seenRet, ftask, fret>>

\* lines 58-62 and 70: result, exists := m.cache[key]; Unlock; on a hit return
FibGetRead(g) ==
  /\ Running(g) /\ Top(g).pc = "g_read"
  /\ mux' = Nobody
  /\ IF CacheLookup(Top(g).n).exists
       THEN ReturnFrom(g, CacheLookup(Top(g).n).result)
       ELSE /\ fstack' = [fstack EXCEPT ![g] = WithTop(g, [Top(g) EXCEPT !.pc = "g_lock2"])]
            /\ fret' = fret
  /\ UNCHANGED <<fibOthers, mpc, key, cache, mresult, ret, finvoked, seenRet, ftask>>

\* lines 63-65: m.mux.Lock(), then m.f(key, m), here FibonacciCached(key, m)
FibGetLockAndCall(g) ==
  /\ Running(g) /\ Top(g).pc = "g_lock2" /\ mux = Nobody
  /\ mux' = g
  /\ fstack' = [fstack EXCEPT ![g] = WithTop(g, [Top(g) EXCEPT !.pc = "f_body"])]
  /\ UNCHANGED <<fibOthers, mpc, key, cache, mresult, ret, finvoked, seenRet, ftask, fret>>

\* lines 18-20: if n <= 1 { return n }
FibBase(g) ==
  /\ Running(g) /\ Top(g).pc = "f_body" /\ Top(g).n <= 1
  /\ fstack' = [fstack EXCEPT ![g] =
                  WithTop(g, [Top(g) EXCEPT !.acc = Top(g).n, !.pc = "g_store"])]
  /\ UNCHANGED <<fibOthers, memVars, ftask, fret>>

\* line 22: the call m.Get(n-1), made while Get holds m.mux
FibRecurse(g) ==
  /\ Running(g) /\ Top(g).pc = "f_body" /\ Top(g).n > 1
  /\ fstack' = [fstack EXCEPT ![g] =
                  Append(WithTop(g, [Top(g) EXCEPT !.pc = "f_first"]),
                         [n |-> Top(g).n - 1, pc |-> "g_start", acc |-> 0])]
  /\ UNCHANGED <<fibOthers, memVars, ftask, fret>>

\* lines 67-70: m.cache[key] = result; Unlock; return result
FibGetStore(g) ==
  /\ Running(g) /\ Top(g).pc = "g_store"
  /\ cache' = [k \in DOMAIN cache \cup {Top(g).n} |->
                 IF k = Top(g).n THEN Top(g).acc ELSE cache[k]]
  /\ mux' = Nobody
  /\ ReturnFrom(g, Top(g).acc)
  /\ UNCHANGED <<fibOthers, mpc, key, mresult, ret, finvoked, seenRet, ftask>>

\* One step of a goroutine that calls cache.Get(n), as main does for each task.
FibGet(g) ==
  \/ FibGetLock(g) \/ FibGetRead(g) \/ FibGetLockAndCall(g)
  \/ FibBase(g) \/ FibRecurse(g) \/ FibGetStore(g)

FibNext == \E g \in FibCallers : FibGet(g)

FibProgramInit == FibInit /\ SvcOff /\ BalOff /\ SglOff /\ ChatOff

FibSpec == FibProgramInit /\ [][FibNext]_vars

\* Every goroutine that can run is run, and sync.Mutex hands the lock to every
\* goroutine that keeps asking for it.
FibFairSpec == FibSpec /\ \A g \in FibCallers : SF_vars(FibGet(g))

\* C11 (Get on a FibonacciCached cache terminates): under fair scheduling every
\* Get(n) with n >= 0 returns, and what it returns is the Fibonacci number at
\* position n.
C11_FibGetTerminates ==
  \A g \in FibCallers : <>(~Running(g) /\ fret[g] = Fib(ftask[g]))

\* --------------------------------------------- RaceConditions-Mutex/main.go

\* balance += amount (Deposit) or balance -= amount (Withdraw) on a loaded value
Updated(o, b) == IF o.op = "Deposit" THEN b + o.amount ELSE b - o.amount

\* mux.Lock() can proceed: no writer and no reader inside.
\* (a Lock that would not wait at all)
MuxCanLockUnguarded == TRUE
MuxCanLock == bmux.writer = Nobody /\ bmux.readers = 0
\* mux.RLock() can proceed: no writer inside.
MuxCanRLock == bmux.writer = Nobody

BalInit ==
  /\ balance = InitialBalance
  /\ bmux = [writer |-> Nobody, readers |-> 0]
  /\ wg = 0
  /\ bpc = [p \in BalProcs |-> "unborn"]
  /\ btmp = [p \in BalProcs |-> None]
  /\ mainpc = "m_rlock"
  /\ spawned = 0
  /\ printed = << >>

\* Balance, line 47: mux.RLock()
MainRLock ==
  /\ mainpc = "m_rlock" /\ MuxCanRLock
  /\ bmux' = [bmux EXCEPT !.readers = @ + 1]
  /\ mainpc' = "m_read"
  /\ UNCHANGED <<balance, wg, bpc, btmp, spawned, printed>>
  /\ UNCHANGED balOthers

\* Balance, lines 48-51, and the Printf of line 63 or 90: b := balance;
\* mux.RUnlock(); return b
MainRead ==
  /\ mainpc = "m_read"
  /\ printed' = Append(printed, balance)
  /\ bmux' = [bmux EXCEPT !.readers = @ - 1]
  /\ mainpc' = IF printed = << >> THEN "m_spawn" ELSE "m_done"
  /\ UNCHANGED <<balance, wg, bpc, btmp, spawned>>
  /\ UNCHANGED balOthers

\* lines 67-83: wg.Add(...) and the next go statement
MainSpawn ==
  /\ mainpc = "m_spawn" /\ spawned < Len(Ops)
  /\ wg' = wg + WgAdd[spawned + 1]
  /\ spawned' = spawned + 1
  /\ bpc' = [bpc EXCEPT ![spawned + 1] = "b_lock"]
  /\ mainpc' = IF spawned + 1 = Len(Ops) THEN "m_wait" ELSE "m_spawn"
  /\ UNCHANGED <<balance, bmux, btmp, printed>>
  /\ UNCHANGED balOthers

\* line 88: wg.Wait() returns when the counter is zero
MainWait ==
  /\ mainpc = "m_wait" /\ wg = 0
  /\ mainpc' = "m_rlock"
  /\ UNCHANGED <<balance, bmux, wg, bpc, btmp, spawned, printed>>
  /\ UNCHANGED balOthers

\* lines 24 and 36: mux.Lock()
BalLock(p) ==
  /\ bpc[p] = "b_lock" /\ MuxCanLock
  /\ bmux' = [bmux EXCEPT !.writer = p]
  /\ bpc' = [bpc EXCEPT ![p] = "b_load"]
  /\ UNCHANGED <<balance, wg, btmp, mainpc, spawned, printed>>
  /\ UNCHANGED balOthers

\* lines 25 and 37, first half: the load of balance
BalLoad(p) ==
  /\ bpc[p] = "b_load"
  /\ btmp' = [btmp EXCEPT ![p] = balance]
  /\ bpc' = [bpc EXCEPT ![p] = "b_store"]
  /\ UNCHANGED <<balance, bmux, wg, mainpc, spawned, printed>>
  /\ UNCHANGED balOthers

\* lines 25 and 37, second half: the store of the sum or difference
BalStore(p) ==
  /\ bpc[p] = "b_store"
  /\ balance' = Updated(Ops[p], btmp[p])
  \* the loaded value is dead after the store
  /\ btmp' = [btmp EXCEPT ![p] = None]
  /\ bpc' = [bpc EXCEPT ![p] = "b_unlock"]
  /\ UNCHANGED <<bmux, wg, mainpc, spawned, printed>>
  /\ UNCHANGED balOthers

\* lines 27 and 38: mux.Unlock()
BalUnlock(p) ==
  /\ bpc[p] = "b_unlock"
  /\ bmux' = [bmux EXCEPT !.writer = Nobody]
  /\ bpc' = [bpc EXCEPT ![p] = "b_wgdone"]
  /\ UNCHANGED <<balance, wg, btmp, mainpc, spawned, printed>>
  /\ UNCHANGED balOthers

\* lines 21 and 34: the deferred wg.Done()
BalWgDone(p) ==
  /\ bpc[p] = "b_wgdone"
  /\ wg' = wg - 1
  /\ bpc' = [bpc EXCEPT ![p] = "done"]
  /\ UNCHANGED <<balance, bmux, btmp, mainpc, spawned, printed>>
  /\ UNCHANGED balOthers

\* One step of a Deposit or Withdraw goroutine.
BalStep(p) ==
  \/ BalLock(p) \/ BalLoad(p) \/ BalStore(p) \/ BalUnlock(p) \/ BalWgDone(p)

BalNext ==
  \/ MainRLock \/ MainRead \/ MainSpawn \/ MainWait
  \/ \E p \in BalProcs : BalStep(p)

BalProgramInit == BalInit /\ SvcOff /\ MemOff /\ FibOff /\ SglOff /\ ChatOff

BalSpec == BalProgramInit /\ [][BalNext]_vars

\* The goroutines whose update of balance has been stored.
Applied == {p \in BalProcs : bpc[p] \in {"b_unlock", "b_wgdone", "done"}}

RECURSIVE AppliedTo(_, _)
\* The balance b after the updates of the goroutines in S.
AppliedTo(S, b) ==
  IF S = {} THEN b
  ELSE LET p == CHOOSE q \in S : TRUE IN AppliedTo(S \ {p}, Updated(Ops[p], b))

\* C15 (Deposit and Withdraw are atomic; the final balance is 1300): at most one
\* goroutine is between its Lock and its Unlock, the balance is always the
\* initial 100 with exactly the stored updates applied, and the balance main
\* reads after wg.Wait() is 100 + 1800 - 600 = 1300.
C15_BalanceAtomic ==
  /\ \A p \in BalProcs, q \in BalProcs :
       (bpc[p] \in {"b_load", "b_store", "b_unlock"}
          /\ bpc[q] \in {"b_load", "b_store", "b_unlock"}) => p = q
  /\ balance = AppliedTo(Applied, InitialBalance)
  /\ mainpc = "m_done" => (Applied = BalProcs /\ printed = <<100, 1300>>)

\* C15, its case: main has waited for the ten goroutines and printed the final
\* balance.
C15_Witness == mainpc = "m_done" /\ Len(printed) = 2 /\ wg = 0

\* ------------------------------------------------ Singleton (part_000)

\* mutex.Lock() can proceed.
\* (a Lock that would not wait)
MutexFreeUnguarded == TRUE
MutexFree == mutex = Nobody

SglInit ==
  /\ spc = [p \in SglProcs |-> "s_lock"]
  /\ mutex = Nobody
  /\ db = NilDb
  /\ created = 0
  /\ connections = 0
  /\ sret = [p \in SglProcs |-> None]

\* line 41: mutex.Lock()
SglLock(p) ==
  /\ spc[p] = "s_lock" /\ MutexFree
  /\ mutex' = p
  /\ spc' = [spc EXCEPT ![p] = "s_check"]
  /\ UNCHANGED <<db, created, connections, sret>>
  /\ UNCHANGED sglOthers

\* line 44: if db == nil
SglCheck(p) ==
  /\ spc[p] = "s_check"
  /\ spc' = [spc EXCEPT ![p] = IF db = NilDb THEN "s_create" ELSE "s_return"]
  /\ UNCHANGED <<mutex, db, created, connections, sret>>
  /\ UNCHANGED sglOthers

\* line 46: db = &Database{}; each evaluation is a new instance
SglCreate(p) ==
  /\ spc[p] = "s_create"
  /\ created' = created + 1
  /\ db' = created + 1
  /\ spc' = [spc EXCEPT ![p] = "s_connect"]
  /\ UNCHANGED <<mutex, connections, sret>>
  /\ UNCHANGED sglOthers

\* line 47: db.CreateSingleConnection()
SglConnect(p) ==
  /\ spc[p] = "s_connect"
  /\ connections' = connections + 1
  /\ spc' = [spc EXCEPT ![p] = "s_return"]
  /\ UNCHANGED <<mutex, db, created, sret>>
  /\ UNCHANGED sglOthers

\* lines 51 and 42: return db, then the deferred mutex.Unlock()
SglReturn(p) ==
  /\ spc[p] = "s_return"
  /\ sret' = [sret EXCEPT ![p] = db]
  /\ mutex' = Nobody
  /\ spc' = [spc EXCEPT ![p] = "done"]
  /\ UNCHANGED <<db, created, connections>>
  /\ UNCHANGED sglOthers

\* One step of `go func() { defer wg.Done(); getDatabaseInstance() }`.
getDatabaseInstance(p) ==
  \/ SglLock(p) \/ SglCheck(p) \/ SglCreate(p) \/ SglConnect(p) \/ SglReturn(p)

SglNext == \E p \in SglProcs : getDatabaseInstance(p)

SglProgramInit == SglInit /\ SvcOff /\ MemOff /\ FibOff /\ BalOff /\ ChatOff

SglSpec == SglProgramInit /\ [][SglNext]_vars

\* C16 (singleton): &Database{} is evaluated at most once and
\* CreateSingleConnection runs at most once; by the time any call has returned
\* both have happened exactly once, and every call returns the same instance,
\* which is db and is not nil.
C16_SingleInstance ==
  /\ created <= 1 /\ connections <= 1
  /\ \A p \in SglProcs :
       spc[p] = "done" =>
         /\ created = 1 /\ connections = 1
         /\ sret[p] # NilDb /\ sret[p] = db
         /\ \A q \in SglProcs : spc[q] = "done" => sret[q] = sret[p]

\* C16, its case: every goroutine's call has returned.
C16_Witness == \A p \in SglProcs : spc[p] = "done" /\ sret[p] # None

\* ------------------------------------------------- NetCAT/server.go

\* The strings HandleConn builds: the welcome (line 43), "New client ... has
\* joined" (line 45), clientName + ": " + text (line 54), "Client ... has left"
\* (line 60). The n-th line of a client is a text of its own.
Welcome(c) == [from |-> c, kind |-> "welcome", n |-> 0]
Joined(c) == [from |-> c, kind |-> "joined", n |-> 0]
Text(c, n) == [from |-> c, kind |-> "text", n |-> n]
Left(c) == [from |-> c, kind |-> "left", n |-> 0]

\* The message a HandleConn blocked in `ChatMessages <- ...` is sending.
Outgoing(c) ==
  CASE hpc[c] = "h_join" -> Joined(c)
    [] hpc[c] = "h_msg" -> Text(c, lines[c])
    [] hpc[c] = "h_left" -> Left(c)

\* Where HandleConn continues after that send.
AfterSend(c) ==
  CASE hpc[c] = "h_join" -> "h_register"
    [] hpc[c] = "h_msg" -> "h_scan"
    [] hpc[c] = "h_left" -> "done"

\* (a Broadcast that would leave the leaving client in the map)
DeletedNothing(cs, c) == cs
\* line 98: delete(clients, leavingClient)
Deleted(cs, c) == cs \ {c}

\* (a range loop that would miss one of the clients)
RecipientsButOne(cs) == IF cs = {} THEN {} ELSE cs \ {CHOOSE c \in cs : TRUE}
\* lines 88-90: for client := range clients: the channels the loop sends to
Recipients(cs) == cs

ChatInit ==
  /\ hpc = [c \in Conns |-> "h_idle"]
  /\ wpc = [c \in Conns |-> "off"]
  /\ bcast = "b_select"
  /\ clients = {}
  /\ message = NoMsg
  /\ todo = {}
  /\ wmsg = [c \in Conns |-> NoMsg]
  /\ conn = [c \in Conns |-> << >>]
  /\ chClosed = {}
  /\ lines = [c \in Conns |-> 0]
  /\ received = << >>
  /\ delivered = [c \in Conns |-> << >>]

\* StartServer lines 119-127 and HandleConn lines 35-37: a connection is
\* accepted, its channel made and its MessageWriter started
Accept(c) ==
  /\ hpc[c] = "h_idle"
  /\ hpc' = [hpc EXCEPT ![c] = "h_welcome"]
  /\ wpc' = [wpc EXCEPT ![c] = "w_recv"]
  /\ UNCHANGED <<bcast, clients, message, todo, wmsg, conn, chClosed, lines,
                 received, delivered>>
  /\ UNCHANGED chatOthers

\* line 43: clientMessages <- welcome, received by the MessageWriter (line 67)
SendWelcome(c) ==
  /\ hpc[c] = "h_welcome" /\ wpc[c] = "w_recv" /\ c \notin chClosed
  /\ wmsg' = [wmsg EXCEPT ![c] = Welcome(c)]
  /\ wpc' = [wpc EXCEPT ![c] = "w_write"]
  /\ hpc' = [hpc EXCEPT ![c] = "h_join"]
  /\ UNCHANGED <<bcast, clients, message, todo, conn, chClosed, lines, received,
                 delivered>>
  /\ UNCHANGED chatOthers

\* line 69: fmt.Fprintln(conn, msg)
WriterWrite(c) ==
  /\ wpc[c] = "w_write"
  /\ conn' = [conn EXCEPT ![c] = Append(@, wmsg[c])]
  /\ wmsg' = [wmsg EXCEPT ![c] = NoMsg]
  /\ wpc' = [wpc EXCEPT ![c] = "w_recv"]
  /\ UNCHANGED <<hpc, bcast, clients, message, todo, chClosed, lines, received,
                 delivered>>
  /\ UNCHANGED chatOthers

\* line 67: the range over a closed channel ends
WriterEnd(c) ==
  /\ wpc[c] = "w_recv" /\ c \in chClosed
  /\ wpc' = [wpc EXCEPT ![c] = "done"]
  /\ UNCHANGED <<hpc, bcast, clients, message, todo, wmsg, conn, chClosed, lines,
                 received, delivered>>
  /\ UNCHANGED chatOthers

\* line 52: inputMessage.Scan() returns a line
ScanLine(c) ==
  /\ hpc[c] = "h_scan" /\ lines[c] < MaxLines
  /\ lines' = [lines EXCEPT ![c] = @ + 1]
  /\ hpc' = [hpc EXCEPT ![c] = "h_msg"]
  /\ UNCHANGED <<wpc, bcast, clients, message, todo, wmsg, conn, chClosed,
                 received, delivered>>
  /\ UNCHANGED chatOthers

\* line 52: inputMessage.Scan() returns false, the client has disconnected
ScanEnd(c) ==
  /\ hpc[c] = "h_scan"
  /\ hpc' = [hpc EXCEPT ![c] = "h_leave"]
  /\ UNCHANGED <<wpc, bcast, clients, message, todo, wmsg, conn, chClosed, lines,
                 received, delivered>>
  /\ UNCHANGED chatOthers

\* lines 86-88: case message := <-ChatMessages, together with the send of line
\* 45, 54 or 60; the range loop over clients starts
BroadcastMessage(c) ==
  /\ bcast = "b_select" /\ hpc[c] \in {"h_join", "h_msg", "h_left"}
  /\ received' = Append(received, [msg |-> Outgoing(c), to |-> clients])
  /\ todo' = Recipients(clients)
  /\ message' = IF todo' = {} THEN NoMsg ELSE Outgoing(c)
  /\ bcast' = IF todo' = {} THEN "b_select" ELSE "b_send"
  /\ hpc' = [hpc EXCEPT ![c] = AfterSend(c)]
  /\ UNCHANGED <<wpc, clients, wmsg, conn, chClosed, lines, delivered>>
  /\ UNCHANGED chatOthers

\* line 89: client <- message, received by the client's MessageWriter; the map
\* is ranged over in any order
BroadcastSend(c) ==
  /\ bcast = "b_send" /\ c \in todo
  /\ wpc[c] = "w_recv" /\ c \notin chClosed
  /\ wmsg' = [wmsg EXCEPT ![c] = message]
  /\ wpc' = [wpc EXCEPT ![c] = "w_write"]
  /\ delivered' = [delivered EXCEPT ![c] = Append(@, Len(received))]
  /\ todo' = todo \ {c}
  /\ message' = IF todo' = {} THEN NoMsg ELSE message
  /\ bcast' = IF todo' = {} THEN "b_select" ELSE "b_send"
  /\ UNCHANGED <<hpc, clients, conn, chClosed, lines, received>>
  /\ UNCHANGED chatOthers

\* lines 92-94: case client := <-IncomingClients, together with the send of
\* line 47
BroadcastRegister(c) ==
  /\ bcast = "b_select" /\ hpc[c] = "h_register"
  /\ clients' = clients \cup {c}
  /\ hpc' = [hpc EXCEPT ![c] = "h_scan"]
  /\ UNCHANGED <<wpc, bcast, message, todo, wmsg, conn, chClosed, lines, received,
                 delivered>>
  /\ UNCHANGED chatOthers

\* lines 96-100: case leavingClient := <-LeavingClients, together with the send
\* of line 58: delete(clients, leavingClient); close(leavingClient)
BroadcastLeave(c) ==
  /\ bcast = "b_select" /\ hpc[c] = "h_leave"
  /\ clients' = Deleted(clients, c)
  /\ chClosed' = chClosed \cup {c}
  /\ hpc' = [hpc EXCEPT ![c] = "h_left"]
  /\ UNCHANGED <<wpc, bcast, message, todo, wmsg, conn, lines, received, delivered>>
  /\ UNCHANGED chatOthers

\* One step of HandleConn or MessageWriter of a connection.
HandleConn(c) ==
  \/ Accept(c) \/ SendWelcome(c) \/ ScanLine(c) \/ ScanEnd(c)
  \/ WriterWrite(c) \/ WriterEnd(c)

\* One turn of Broadcast's select or of its range loop.
Broadcast(c) ==
  \/ BroadcastMessage(c) \/ BroadcastSend(c)
  \/ BroadcastRegister(c) \/ BroadcastLeave(c)

ChatNext == \E c \in Conns : HandleConn(c) \/ Broadcast(c)

ChatProgramInit == ChatInit /\ SvcOff /\ MemOff /\ FibOff /\ BalOff /\ SglOff

ChatSpec == ChatProgramInit /\ [][ChatNext]_vars

\* How many times x occurs in the sequence sq.
Count(sq, x) == Cardinality({k \in 1..Len(sq) : sq[k] = x})

\* What a client's channel has carried: the welcome, then the broadcast
\* messages in the order Broadcast sent them.
Carried(c) ==
  (IF hpc[c] \in {"off", "h_idle", "h_welcome"} THEN << >> ELSE <<Welcome(c)>>)
  \o [k \in 1..Len(delivered[c]) |-> received[delivered[c][k]].msg]

\* C20 (broadcast to the registered clients, in order): every message Broadcast
\* has taken from ChatMessages has been sent exactly once to each client that
\* was registered at that moment and to nobody else, the range loop being the
\* only place where some of these sends are still due, and Broadcast takes no
\* other event before the loop is through; each client's channel carries the
\* messages in the order Broadcast received them, its connection gets them in
\* that order, and so two clients that both get two messages get them in the
\* same order.
C20_BroadcastInOrder ==
  /\ bcast = "b_select" => todo = {} /\ message = NoMsg
  /\ bcast = "b_send" =>
       /\ todo # {} /\ todo \subseteq received[Len(received)].to
       /\ clients = received[Len(received)].to
       /\ message = received[Len(received)].msg
  /\ \A i \in 1..Len(received) : \A c \in Conns :
       Count(delivered[c], i) =
         IF c \in received[i].to /\ ~(i = Len(received) /\ c \in todo)
           THEN 1 ELSE 0
  /\ \A c \in Conns : \A k \in 1..(Len(delivered[c]) - 1) :
       delivered[c][k] < delivered[c][k + 1]
  /\ \A c \in Conns :
       conn[c] \o (IF wpc[c] = "w_write" THEN <<wmsg[c]>> ELSE << >>) = Carried(c)
  /\ \A c \in Conns, d \in Conns :
       \A i \in 1..Len(conn[c]), j \in 1..Len(conn[c]) :
         \A k \in 1..Len(conn[d]), l \in 1..Len(conn[d]) :
           (conn[c][i] = conn[d][k] /\ conn[c][j] = conn[d][l] /\ i < j) => k < l

\* C20, its case: two clients were both registered when Broadcast received two
\* messages, and both messages have been written to both connections.
C20_Witness ==
  \E c \in Conns, d \in Conns :
    /\ c # d /\ bcast = "b_select"
    /\ \E i \in 1..Len(received), j \in 1..Len(received) :
         /\ i < j
         /\ {c, d} \subseteq received[i].to /\ {c, d} \subseteq received[j].to
         /\ \A x \in {c, d} : \A m \in {i, j} :
              \E k \in 1..Len(conn[x]) : conn[x][k] = received[m].msg

\* A goroutine is at a send on the channel of client c: HandleConn at the
\* welcome (line 43) or Broadcast in its range loop with c still due (line 89).
SendsTo(c) ==
  \/ hpc[c] = "h_welcome"
  \/ bcast = "b_send" /\ c \in todo

\* C21 (client channel lifecycle): a client channel is closed by Broadcast
\* only, in the step that takes it from LeavingClients and deletes it from the
\* clients map, and that step never finds it closed already; it is closed by
\* the time its HandleConn is past the send to LeavingClients and not before;
\* no closed channel is in the map, and no goroutine is ever at a send on a
\* closed client channel.
C21_ChannelLifecycle ==
  /\ [](\A c \in Conns :
          /\ c \in chClosed <=> hpc[c] \in {"h_left", "done"}
          /\ c \in chClosed => c \notin clients /\ ~SendsTo(c))
  /\ [][\A c \in Conns :
          /\ BroadcastLeave(c) => c \notin chClosed /\ c \in clients /\ c \notin clients'
          /\ (c \notin chClosed /\ c \in chClosed') => BroadcastLeave(c)]_vars

\* C21, its case: one client's channel has been closed and its MessageWriter
\* has ended, and Broadcast is sending a later message to another client.
C21_Witness ==
  \E c \in Conns, d \in Conns :
    /\ c \in chClosed /\ wpc[c] = "done"
    /\ bcast = "b_send" /\ d \in todo /\ d \in clients

====
